---- MODULE Spec2Model ----
(***************************************************************************)
(* A model of the lab reinforcement-learning harness:                      *)
(*   - Experiment (lab/core/experiment.py): run / phase / episode loops,   *)
(*     driving an agent through the Agent interface (lab/core/agent.py)    *)
(*     against an Environment (lab/core/environment.py);                   *)
(*   - QLearningAgent (lab/agents/q_learning_agent.py): the tabular agent, *)
(*     its action selection and its TD update.                            *)
(* Floating-point values are modelled by exact rationals: rewards and     *)
(* returns are integers, Q values are integers scaled by QScale, the      *)
(* hyper-parameters are fractions.                                        *)
(***************************************************************************)
EXTENDS Integers, Sequences, FiniteSets, TLC

\* ---------------------------------------------------------------- bounds
MaxIterations == 2
MaxTrainSteps == 2
MaxEvalSteps == 1
MaxCap == 2
MaxEnvLen == 3
MaxRuns == 2
ExampleMinSteps == 10
NumStates == 2
NumActions == 2
MaxReward == 1
MaxAgentCalls == 3
MaxEpsilonN == 3
MaxSeed == 1
Den == 2

States == 0..(NumStates - 1)
Actions == 0..(NumActions - 1)
Rewards == 0..MaxReward

\* Python's None for an integer-valued local or attribute.
None == -1

\* The result of a call that ended in an exception.
Raise == -2

\* Hyper-parameters are the fractions k / Den; a ValueTable entry v is stored
\* as the integer v * QScale, which is exact for MaxAgentCalls updates.
QScale == (Den * Den) ^ MaxAgentCalls

VARIABLES
    agentKind,              \* class of the agent handed to the Experiment
    envLen,                 \* environment: 0 = any observation, reward and
                            \*   terminal flag at every step; n > 0 = the
                            \*   deterministic one whose episodes last n steps
    env,                    \* environment, since the last reset: steps
                            \*   taken, step of the first terminal flag
                            \*   (0: none yet), sum of the rewards given
    pc,                     \* control position of the program
    num_iterations, train_steps, eval_steps, max_steps_per_episode,
    eval_mode,              \* agent.eval_mode
    stats,                  \* Experiment._stats
    iteration,              \* loop variable of run()
    runs,                   \* number of run() calls made so far
    run_mode, min_steps,    \* arguments of _run_one_phase
    phase_step_count, num_episodes, total_return,   \* locals of _run_one_phase
    episode_length, episode_return,
    observation, action, reward, is_terminal,       \* locals of _run_one_episode
    step_count, total_reward,
    prevCall, lastCall,     \* the last two calls made by the Experiment
    epCalls,                \* per-episode count of the calls, by name
    phaseEnvSteps,          \* environment steps taken since the phase began
    itCallbacks,            \* iteration-callback invocations in this run()
    phaseLog,               \* since the phase began: environment resets,
                            \*   sum of the rewards the environment gave,
                            \*   episode-callback invocations
    seed,                   \* the seed argument of Experiment (None: absent)
    envSeed,                \* what environment.seed is: "method", or the
                            \*   "property" inherited from Environment
    seeded,                 \* seed(value) calls received by agent and env
    q,                      \* QLearningAgent._q, entries scaled by QScale
    q_step_count,           \* QLearningAgent._step_count
    last_observation,       \* QLearningAgent._last_observation
    alpha, gamma,           \* numerators of _alpha, _gamma over Den
    epsilon_i, epsilon_f,   \* numerators of _epsilon_i, _epsilon_f over Den
    epsilon_n,              \* QLearningAgent._epsilon_n
    raised,                 \* a call on the agent ended in an exception
    history                 \* the calls made on the agent, with results

expVars == <<agentKind, envLen, env, pc, num_iterations, train_steps,
             eval_steps, max_steps_per_episode, eval_mode, stats, iteration,
             runs, run_mode, min_steps, phase_step_count, num_episodes,
             total_return, episode_length, episode_return, observation,
             action, reward, is_terminal, step_count, total_reward,
             prevCall, lastCall, epCalls, phaseEnvSteps, itCallbacks,
             phaseLog, seed, envSeed, seeded>>

\* expVars without eval_mode
harnessVars == <<agentKind, envLen, env, pc, num_iterations, train_steps,
                 eval_steps, max_steps_per_episode, stats, iteration,
                 runs, run_mode, min_steps, phase_step_count, num_episodes,
                 total_return, episode_length, episode_return, observation,
                 action, reward, is_terminal, step_count, total_reward,
                 prevCall, lastCall, epCalls, phaseEnvSteps, itCallbacks,
                 phaseLog, seed, envSeed, seeded>>

agentVars == <<q, q_step_count, last_observation, alpha, gamma, epsilon_i,
               epsilon_f, epsilon_n, raised, history>>

vars == <<expVars, agentVars>>

\* ----------------------------------------------------------- helpers
\* The environment right after reset().
EnvFresh == [steps |-> 0, terminalAt |-> 0, rewardSum |-> 0]

\* The environment after a step() that answered res = <<o, r, t>>.
EnvAfterStep(res) ==
    [steps |-> env.steps + 1,
     terminalAt |-> IF env.terminalAt = 0 /\ res[3]
                    THEN env.steps + 1 ELSE env.terminalAt,
     rewardSum |-> env.rewardSum + res[2]]

\* Nothing counted yet in this phase.
PhaseLogFresh == [episodes |-> 0, rewards |-> 0, callbacks |-> 0]

\* Neither the agent nor the environment has been seeded.
Unseeded == [agent |-> 0, env |-> 0]

NoCall == [name |-> "none", args |-> <<>>, ret |-> <<>>]
Call(n, a, r) == [name |-> n, args |-> a, ret |-> r]

CallNames == {"reset", "begin_episode", "act", "step", "learn", "end_episode"}
NoCalls == [n \in CallNames |-> 0]
Count(n) == [epCalls EXCEPT ![n] = @ + 1]

\* Experiment._reset: four empty sequences.
EmptyStats ==
    [train_average_returns |-> <<>>, train_episode_counts |-> <<>>,
     eval_average_returns |-> <<>>, eval_episode_counts |-> <<>>]

\* (variant: the average is taken without the test for an empty phase)
AverageReturn_Unguarded(total, n) == <<total, n>>

\* total_return / num_episodes if num_episodes > 0 else 0., as a fraction
\* <<numerator, denominator>>.
AverageReturn(total, n) == IF n > 0 THEN <<total, n>> ELSE <<0, 1>>

\* ------------------------------------------------------------- Init
\* np.zeros((self._observation_space_n, self._action_space_n))
ZeroTable == [s \in States |-> [a \in Actions |-> 0]]

\* QLearningAgent.__init__: counter 0, no last observation, zero table.
AgentConstructed ==
    /\ q = ZeroTable
    /\ q_step_count = 0
    /\ last_observation = None
    /\ raised = FALSE
    /\ history = <<>>

\* The program of tests/lab/core_test.py before it builds its objects: the
\* agent class, the environment and the Experiment arguments are the inputs.
Init ==
    /\ AgentConstructed
    /\ alpha = 1 /\ gamma = Den
    /\ epsilon_i = Den /\ epsilon_f = 0 /\ epsilon_n = MaxEpsilonN
    /\ agentKind \in {"Agent", "QLearningAgent"}
    /\ envLen \in 0..MaxEnvLen
    /\ env = EnvFresh
    /\ pc = "construct"
    /\ num_iterations \in 1..MaxIterations
    /\ train_steps \in (0..MaxTrainSteps)
                       \cup (IF envLen > 0 THEN {ExampleMinSteps} ELSE {})
    /\ eval_steps \in 0..MaxEvalSteps
    /\ max_steps_per_episode \in 1..(IF envLen > 0 THEN MaxEnvLen ELSE MaxCap)
    /\ eval_mode = FALSE
    /\ stats = <<>>
    /\ iteration = 0
    /\ runs = 0
    /\ run_mode = "none"
    /\ min_steps = 0
    /\ phase_step_count = 0
    /\ num_episodes = 0
    /\ total_return = 0
    /\ episode_length = None
    /\ episode_return = None
    /\ observation = None
    /\ action = None
    /\ reward = None
    /\ is_terminal = FALSE
    /\ step_count = 0
    /\ total_reward = 0
    /\ prevCall = NoCall
    /\ lastCall = NoCall
    /\ epCalls = NoCalls
    /\ phaseEnvSteps = 0
    /\ itCallbacks = 0
    /\ phaseLog = PhaseLogFresh
    /\ seed = None
    /\ envSeed = "method"
    /\ seeded = Unseeded

\* ------------------------------------------------------- Environment
\* Environment.reset(): the initial observation of a new episode.
EnvResetResults == IF envLen = 0 THEN States ELSE {0}

\* Environment.step(action): the triples (observation, reward, is_terminal)
\* the environment may answer with at its n-th step since the reset.
EnvStepResults(n) ==
    IF envLen = 0
    THEN States \X Rewards \X BOOLEAN
    ELSE {<<0, 1, n >= envLen>>}

\* ------------------------------------------------- Experiment: conditions
\* (variant: the phase goes on while the budget is merely not exceeded)
PhaseContinues_OffByOne(sc, ms) == sc <= ms

\* while step_count < min_steps
PhaseContinues(sc, ms) == sc < ms

\* (variant: the cap is tested one step late)
EpisodeOver_CapLate(term, sc, cap) == term \/ sc > cap

\* (variant: only the step cap ends an episode)
EpisodeOver_CapOnly(term, sc, cap) == sc = cap

\* if is_terminal or step_count == self._max_steps_per_episode: break
EpisodeOver(term, sc, cap) == term \/ sc = cap

\* (variant: the loop runs one iteration too many)
MoreIterations_OneMore(i, n) == i <= n

\* for iteration in range(self._num_iterations)
MoreIterations(i, n) == i < n

\* ------------------------------------------------- construction
\* if seed is not None
SeedSupplied(sd) == sd # None

\* QLearningAgent(...) / a concrete Agent subclass, then Experiment(...).
\* QLearningAgent derives from the ABCMeta class Agent and overrides neither
\* of its abstract methods seed and act, so instantiating it raises.
\* Experiment.__init__ stores its arguments unchecked, then, if a seed was
\* given, calls self._agent.seed(seed) and self._environment.seed(seed).  On
\* an environment that inherits the property Environment.seed, the second
\* evaluates the property (None) and calling it raises.
Construct ==
    /\ pc = "construct"
    /\ IF agentKind = "QLearningAgent"
       THEN pc' = "raised" /\ seeded' = seeded
       ELSE IF ~SeedSupplied(seed)
       THEN pc' = "idle" /\ seeded' = seeded
       ELSE IF envSeed = "property"
       THEN pc' = "raised" /\ seeded' = [seeded EXCEPT !.agent = @ + 1]
       ELSE pc' = "idle" /\ seeded' = [agent |-> seeded.agent + 1,
                                       env |-> seeded.env + 1]
    /\ UNCHANGED agentVars
    /\ UNCHANGED <<seed, envSeed, phaseLog>>
    /\ UNCHANGED <<agentKind, envLen, env, num_iterations, train_steps,
                   eval_steps, max_steps_per_episode, eval_mode, stats, iteration,
                   runs, run_mode, min_steps, phase_step_count, num_episodes,
                   total_return, episode_length, episode_return, observation,
                   action, reward, is_terminal, step_count, total_reward,
                   prevCall, lastCall, epCalls, phaseEnvSteps, itCallbacks>>

\* ------------------------------------------------- Experiment.run
\* (variant: run() resets the statistics only the first time)
Run_KeepsStats ==
    /\ pc \in {"idle", "returned"}
    /\ runs < MaxRuns
    /\ runs' = runs + 1
    /\ stats' = IF runs = 0 THEN EmptyStats ELSE stats
    /\ iteration' = 0
    /\ itCallbacks' = 0
    /\ pc' = "for_iteration"
    /\ UNCHANGED agentVars
    /\ UNCHANGED <<seed, envSeed, seeded, phaseLog>>
    /\ UNCHANGED <<agentKind, envLen, env, num_iterations, train_steps,
                   eval_steps, max_steps_per_episode, eval_mode,
                   run_mode, min_steps, phase_step_count, num_episodes,
                   total_return, episode_length, episode_return, observation,
                   action, reward, is_terminal, step_count, total_reward,
                   prevCall, lastCall, epCalls, phaseEnvSteps>>

\* run(): self._reset(), then enter the for loop.
Run ==
    /\ pc \in {"idle", "returned"}
    /\ runs < MaxRuns
    /\ runs' = runs + 1
    /\ stats' = EmptyStats
    /\ iteration' = 0
    /\ itCallbacks' = 0
    /\ pc' = "for_iteration"
    /\ UNCHANGED agentVars
    /\ UNCHANGED <<seed, envSeed, seeded, phaseLog>>
    /\ UNCHANGED <<agentKind, envLen, env, num_iterations, train_steps,
                   eval_steps, max_steps_per_episode, eval_mode,
                   run_mode, min_steps, phase_step_count, num_episodes,
                   total_return, episode_length, episode_return, observation,
                   action, reward, is_terminal, step_count, total_reward,
                   prevCall, lastCall, epCalls, phaseEnvSteps>>

\* the for statement: next iteration, or return self._stats
ForIteration ==
    /\ pc = "for_iteration"
    /\ pc' = IF MoreIterations(iteration, num_iterations)
             THEN "train_phase" ELSE "returned"
    /\ UNCHANGED agentVars
    /\ UNCHANGED <<seed, envSeed, seeded, phaseLog>>
    /\ UNCHANGED <<agentKind, envLen, env, num_iterations, train_steps,
                   eval_steps, max_steps_per_episode, eval_mode, stats,
                   iteration, runs, run_mode, min_steps, phase_step_count,
                   num_episodes, total_return, episode_length, episode_return,
                   observation, action, reward, is_terminal, step_count,
                   total_reward, prevCall, lastCall, epCalls, phaseEnvSteps,
                   itCallbacks>>

\* Entry of _run_one_phase(min_steps, run_mode): fresh locals.
EnterPhase(ms, mode) ==
    /\ min_steps' = ms
    /\ run_mode' = mode
    /\ phase_step_count' = 0
    /\ num_episodes' = 0
    /\ total_return' = 0
    /\ episode_length' = None
    /\ episode_return' = None
    /\ phaseEnvSteps' = 0
    /\ phaseLog' = PhaseLogFresh
    /\ pc' = "phase_loop"

\* Return of _run_one_phase to the phase method, and of the phase method
\* to run(): the locals of both frames are gone.
LeavePhase ==
    /\ min_steps' = 0
    /\ run_mode' = "none"
    /\ phase_step_count' = 0
    /\ num_episodes' = 0
    /\ total_return' = 0
    /\ episode_length' = None
    /\ episode_return' = None
    /\ phaseEnvSteps' = 0
    /\ phaseLog' = PhaseLogFresh

\* (variant: the training phase leaves the agent's mode flag as it is)
TrainPhaseBegin_KeepsMode ==
    /\ pc = "train_phase"
    /\ eval_mode' = eval_mode
    /\ EnterPhase(train_steps, "train")
    /\ UNCHANGED agentVars
    /\ UNCHANGED <<seed, envSeed, seeded>>
    /\ UNCHANGED <<agentKind, envLen, env, num_iterations, train_steps,
                   eval_steps, max_steps_per_episode, stats, iteration, runs,
                   observation, action, reward, is_terminal, step_count,
                   total_reward, prevCall, lastCall, epCalls, itCallbacks>>

\* _run_train_phase, up to the call of _run_one_phase
TrainPhaseBegin ==
    /\ pc = "train_phase"
    /\ eval_mode' = FALSE
    /\ EnterPhase(train_steps, "train")
    /\ UNCHANGED agentVars
    /\ UNCHANGED <<seed, envSeed, seeded>>
    /\ UNCHANGED <<agentKind, envLen, env, num_iterations, train_steps,
                   eval_steps, max_steps_per_episode, stats, iteration, runs,
                   observation, action, reward, is_terminal, step_count,
                   total_reward, prevCall, lastCall, epCalls, itCallbacks>>

\* _run_eval_phase, up to the call of _run_one_phase
EvalPhaseBegin ==
    /\ pc = "eval_phase"
    /\ eval_mode' = TRUE
    /\ EnterPhase(eval_steps, "eval")
    /\ UNCHANGED agentVars
    /\ UNCHANGED <<seed, envSeed, seeded>>
    /\ UNCHANGED <<agentKind, envLen, env, num_iterations, train_steps,
                   eval_steps, max_steps_per_episode, stats, iteration, runs,
                   observation, action, reward, is_terminal, step_count,
                   total_reward, prevCall, lastCall, epCalls, itCallbacks>>

\* _run_one_phase: the while test
PhaseLoop ==
    /\ pc = "phase_loop"
    /\ pc' = IF PhaseContinues(phase_step_count, min_steps)
             THEN "episode" ELSE "phase_return"
    /\ UNCHANGED agentVars
    /\ UNCHANGED <<seed, envSeed, seeded, phaseLog>>
    /\ UNCHANGED <<agentKind, envLen, env, num_iterations, train_steps,
                   eval_steps, max_steps_per_episode, eval_mode, stats,
                   iteration, runs, run_mode, min_steps, phase_step_count,
                   num_episodes, total_return, episode_length, episode_return,
                   observation, action, reward, is_terminal, step_count,
                   total_reward, prevCall, lastCall, epCalls, phaseEnvSteps,
                   itCallbacks>>

\* ------------------------------------------------- the Agent interface
\* act() of a concrete agent: some action of the action space.
AgentActResults == Actions

\* ------------------------------------------------- _run_one_episode
\* initial_observation = self._environment.reset()
EpisodeReset ==
    /\ pc = "episode"
    /\ \E o \in EnvResetResults :
          /\ observation' = o
          /\ lastCall' = Call("reset", <<>>, <<o>>)
    /\ env' = EnvFresh
    /\ action' = None
    /\ reward' = None
    /\ prevCall' = lastCall
    /\ epCalls' = [NoCalls EXCEPT !["reset"] = 1]
    /\ phaseLog' = [phaseLog EXCEPT !.episodes = @ + 1]
    /\ pc' = "begin_episode"
    /\ UNCHANGED agentVars
    /\ UNCHANGED <<seed, envSeed, seeded>>
    /\ UNCHANGED <<agentKind, envLen, num_iterations, train_steps,
                   eval_steps, max_steps_per_episode, eval_mode, stats,
                   iteration, runs, run_mode, min_steps, phase_step_count,
                   num_episodes, total_return, episode_length,
                   episode_return, is_terminal, step_count, total_reward,
                   phaseEnvSteps, itCallbacks>>

\* self._agent.begin_episode(initial_observation); then the three locals
EpisodeBegin ==
    /\ pc = "begin_episode"
    /\ prevCall' = lastCall
    /\ lastCall' = Call("begin_episode", <<observation>>, <<>>)
    /\ epCalls' = Count("begin_episode")
    /\ is_terminal' = FALSE
    /\ step_count' = 0
    /\ total_reward' = 0
    /\ pc' = "act"
    /\ UNCHANGED agentVars
    /\ UNCHANGED <<seed, envSeed, seeded, phaseLog>>
    /\ UNCHANGED <<agentKind, envLen, env, num_iterations, train_steps,
                   eval_steps, max_steps_per_episode, eval_mode, stats,
                   iteration, runs, run_mode, min_steps, phase_step_count,
                   num_episodes, total_return, episode_length,
                   episode_return, observation, action, reward,
                   phaseEnvSteps, itCallbacks>>

\* action = self._agent.act()
EpisodeAct ==
    /\ pc = "act"
    /\ \E a \in AgentActResults :
          /\ action' = a
          /\ lastCall' = Call("act", <<>>, <<a>>)
    /\ prevCall' = lastCall
    /\ epCalls' = Count("act")
    /\ pc' = "step"
    /\ UNCHANGED agentVars
    /\ UNCHANGED <<seed, envSeed, seeded, phaseLog>>
    /\ UNCHANGED <<agentKind, envLen, env, num_iterations, train_steps,
                   eval_steps, max_steps_per_episode, eval_mode, stats,
                   iteration, runs, run_mode, min_steps, phase_step_count,
                   num_episodes, total_return, episode_length,
                   episode_return, observation, reward, is_terminal,
                   step_count, total_reward, phaseEnvSteps, itCallbacks>>

\* observation, reward, is_terminal, _ = self._environment.step(action)
EpisodeStep ==
    /\ pc = "step"
    /\ \E res \in EnvStepResults(env.steps + 1) :
          /\ observation' = res[1]
          /\ reward' = res[2]
          /\ is_terminal' = res[3]
          /\ lastCall' = Call("step", <<action>>, <<res[1], res[2]>>)
          /\ env' = EnvAfterStep(res)
          /\ phaseLog' = [phaseLog EXCEPT !.rewards = @ + res[2]]
    /\ phaseEnvSteps' = phaseEnvSteps + 1
    /\ prevCall' = lastCall
    /\ epCalls' = Count("step")
    /\ pc' = "learn"
    /\ UNCHANGED agentVars
    /\ UNCHANGED <<seed, envSeed, seeded>>
    /\ UNCHANGED <<agentKind, envLen, num_iterations, train_steps,
                   eval_steps, max_steps_per_episode, eval_mode, stats,
                   iteration, runs, run_mode, min_steps, phase_step_count,
                   num_episodes, total_return, episode_length,
                   episode_return, action, step_count, total_reward,
                   itCallbacks>>

\* (variant: learn is called in training mode only)
EpisodeLearn_TrainOnly ==
    /\ pc = "learn"
    /\ IF eval_mode
       THEN UNCHANGED <<prevCall, lastCall, epCalls>>
       ELSE /\ prevCall' = lastCall
            /\ lastCall' = Call("learn", <<reward, observation>>, <<>>)
            /\ epCalls' = Count("learn")
    /\ total_reward' = total_reward + reward
    /\ step_count' = step_count + 1
    /\ pc' = IF EpisodeOver(is_terminal, step_count + 1, max_steps_per_episode)
             THEN "end_episode" ELSE "act"
    /\ UNCHANGED agentVars
    /\ UNCHANGED <<seed, envSeed, seeded, phaseLog>>
    /\ UNCHANGED <<agentKind, envLen, env, num_iterations, train_steps,
                   eval_steps, max_steps_per_episode, eval_mode, stats,
                   iteration, runs, run_mode, min_steps, phase_step_count,
                   num_episodes, total_return, episode_length,
                   episode_return, observation, action, reward, is_terminal,
                   phaseEnvSteps, itCallbacks>>

\* (variant: the transition that ends the episode is not passed to learn)
EpisodeLearn_SkipsLast ==
    /\ pc = "learn"
    /\ IF EpisodeOver(is_terminal, step_count + 1, max_steps_per_episode)
       THEN UNCHANGED <<prevCall, lastCall, epCalls>>
       ELSE /\ prevCall' = lastCall
            /\ lastCall' = Call("learn", <<reward, observation>>, <<>>)
            /\ epCalls' = Count("learn")
    /\ total_reward' = total_reward + reward
    /\ step_count' = step_count + 1
    /\ pc' = IF EpisodeOver(is_terminal, step_count + 1, max_steps_per_episode)
             THEN "end_episode" ELSE "act"
    /\ UNCHANGED agentVars
    /\ UNCHANGED <<seed, envSeed, seeded, phaseLog>>
    /\ UNCHANGED <<agentKind, envLen, env, num_iterations, train_steps,
                   eval_steps, max_steps_per_episode, eval_mode, stats,
                   iteration, runs, run_mode, min_steps, phase_step_count,
                   num_episodes, total_return, episode_length,
                   episode_return, observation, action, reward, is_terminal,
                   phaseEnvSteps, itCallbacks>>

\* self._agent.learn(reward, observation); total_reward += reward;
\* step_count += 1; the break test
EpisodeLearn ==
    /\ pc = "learn"
    /\ prevCall' = lastCall
    /\ lastCall' = Call("learn", <<reward, observation>>, <<>>)
    /\ epCalls' = Count("learn")
    /\ total_reward' = total_reward + reward
    /\ step_count' = step_count + 1
    /\ pc' = IF EpisodeOver(is_terminal, step_count + 1, max_steps_per_episode)
             THEN "end_episode" ELSE "act"
    /\ UNCHANGED agentVars
    /\ UNCHANGED <<seed, envSeed, seeded, phaseLog>>
    /\ UNCHANGED <<agentKind, envLen, env, num_iterations, train_steps,
                   eval_steps, max_steps_per_episode, eval_mode, stats,
                   iteration, runs, run_mode, min_steps, phase_step_count,
                   num_episodes, total_return, episode_length,
                   episode_return, observation, action, reward, is_terminal,
                   phaseEnvSteps, itCallbacks>>

\* self._agent.end_episode(); return step_count, total_reward
\* (received by _run_one_phase as episode_length, episode_return)
EpisodeEnd ==
    /\ pc = "end_episode"
    /\ prevCall' = lastCall
    /\ lastCall' = Call("end_episode", <<>>, <<>>)
    /\ epCalls' = Count("end_episode")
    /\ episode_length' = step_count
    /\ episode_return' = total_reward
    /\ observation' = None
    /\ action' = None
    /\ reward' = None
    /\ is_terminal' = FALSE
    /\ step_count' = 0
    /\ total_reward' = 0
    /\ pc' = "episode_callback"
    /\ UNCHANGED agentVars
    /\ UNCHANGED <<seed, envSeed, seeded, phaseLog>>
    /\ UNCHANGED <<agentKind, envLen, env, num_iterations, train_steps,
                   eval_steps, max_steps_per_episode, eval_mode, stats,
                   iteration, runs, run_mode, min_steps, phase_step_count,
                   num_episodes, total_return, phaseEnvSteps,
                   itCallbacks>>

\* (variant: the episode callback is invoked in training phases only)
PhaseAccumulate_TrainCallbackOnly ==
    /\ pc = "episode_callback"
    /\ phase_step_count' = phase_step_count + episode_length
    /\ total_return' = total_return + episode_return
    /\ num_episodes' = num_episodes + 1
    /\ phaseLog' = IF run_mode = "train"
                   THEN [phaseLog EXCEPT !.callbacks = @ + 1] ELSE phaseLog
    /\ pc' = "phase_loop"
    /\ UNCHANGED agentVars
    /\ UNCHANGED <<seed, envSeed, seeded>>
    /\ UNCHANGED <<agentKind, envLen, env, num_iterations, train_steps,
                   eval_steps, max_steps_per_episode, eval_mode, stats,
                   iteration, runs, run_mode, min_steps, episode_length,
                   episode_return, observation, action, reward, is_terminal,
                   step_count, total_reward, prevCall, lastCall, epCalls,
                   phaseEnvSteps, itCallbacks>>

\* _run_one_phase: the episode callback and the three accumulations
PhaseAccumulate ==
    /\ pc = "episode_callback"
    /\ phase_step_count' = phase_step_count + episode_length
    /\ total_return' = total_return + episode_return
    /\ num_episodes' = num_episodes + 1
    /\ phaseLog' = [phaseLog EXCEPT !.callbacks = @ + 1]
    /\ pc' = "phase_loop"
    /\ UNCHANGED agentVars
    /\ UNCHANGED <<seed, envSeed, seeded>>
    /\ UNCHANGED <<agentKind, envLen, env, num_iterations, train_steps,
                   eval_steps, max_steps_per_episode, eval_mode, stats,
                   iteration, runs, run_mode, min_steps, episode_length,
                   episode_return, observation, action, reward, is_terminal,
                   step_count, total_reward, prevCall, lastCall, epCalls,
                   phaseEnvSteps, itCallbacks>>

\* _run_train_phase after _run_one_phase returned: the two appends
TrainPhaseEnd ==
    /\ pc = "phase_return"
    /\ run_mode = "train"
    /\ stats' = [stats EXCEPT
          !.train_average_returns =
              Append(@, AverageReturn(total_return, num_episodes)),
          !.train_episode_counts = Append(@, num_episodes)]
    /\ pc' = "eval_phase"
    /\ LeavePhase
    /\ UNCHANGED agentVars
    /\ UNCHANGED <<seed, envSeed, seeded>>
    /\ UNCHANGED <<agentKind, envLen, env, num_iterations, train_steps,
                   eval_steps, max_steps_per_episode, eval_mode, iteration,
                   runs, observation, action, reward, is_terminal, step_count,
                   total_reward, prevCall, lastCall, epCalls, itCallbacks>>

\* _run_eval_phase after _run_one_phase returned: the two appends
EvalPhaseEnd ==
    /\ pc = "phase_return"
    /\ run_mode = "eval"
    /\ stats' = [stats EXCEPT
          !.eval_average_returns =
              Append(@, AverageReturn(total_return, num_episodes)),
          !.eval_episode_counts = Append(@, num_episodes)]
    /\ pc' = "iteration_callback"
    /\ LeavePhase
    /\ UNCHANGED agentVars
    /\ UNCHANGED <<seed, envSeed, seeded>>
    /\ UNCHANGED <<agentKind, envLen, env, num_iterations, train_steps,
                   eval_steps, max_steps_per_episode, eval_mode, iteration,
                   runs, observation, action, reward, is_terminal, step_count,
                   total_reward, prevCall, lastCall, epCalls, itCallbacks>>

\* self._iteration_callback(self, self._stats); end of the loop body
IterationCallback ==
    /\ pc = "iteration_callback"
    /\ itCallbacks' = itCallbacks + 1
    /\ iteration' = iteration + 1
    /\ pc' = "for_iteration"
    /\ UNCHANGED agentVars
    /\ UNCHANGED <<seed, envSeed, seeded, phaseLog>>
    /\ UNCHANGED <<agentKind, envLen, env, num_iterations, train_steps,
                   eval_steps, max_steps_per_episode, eval_mode, stats, runs,
                   run_mode, min_steps, phase_step_count, num_episodes,
                   total_return, episode_length, episode_return, observation,
                   action, reward, is_terminal, step_count, total_reward,
                   prevCall, lastCall, epCalls, phaseEnvSteps>>

Next ==
    \/ Construct
    \/ Run
    \/ ForIteration
    \/ TrainPhaseBegin
    \/ EvalPhaseBegin
    \/ PhaseLoop
    \/ EpisodeReset
    \/ EpisodeBegin
    \/ EpisodeAct
    \/ EpisodeStep
    \/ EpisodeLearn
    \/ EpisodeEnd
    \/ PhaseAccumulate
    \/ TrainPhaseEnd
    \/ EvalPhaseEnd
    \/ IterationCallback

Spec == Init /\ [][Next]_vars

\* run() is sequential code: whenever a statement can execute, it does.
FairSpec == Spec /\ WF_vars(Next)

\* The program before it builds its objects, for every configuration a
\* caller can pass: a step cap of any sign, a seed or none, an environment
\* whose seed is a method or the inherited property.  The environments are
\* the deterministic ones, whose episodes end by themselves.
InitC ==
    /\ AgentConstructed
    /\ alpha = 1 /\ gamma = Den
    /\ epsilon_i = Den /\ epsilon_f = 0 /\ epsilon_n = MaxEpsilonN
    /\ agentKind \in {"Agent", "QLearningAgent"}
    /\ envLen \in 1..MaxEnvLen
    /\ env = EnvFresh
    /\ pc = "construct"
    /\ num_iterations \in 1..MaxIterations
    /\ train_steps \in 0..MaxTrainSteps
    /\ eval_steps \in 0..MaxEvalSteps
    /\ max_steps_per_episode \in (0 - MaxCap)..MaxCap
    /\ eval_mode = FALSE
    /\ stats = <<>>
    /\ iteration = 0
    /\ runs = 0
    /\ run_mode = "none"
    /\ min_steps = 0
    /\ phase_step_count = 0
    /\ num_episodes = 0
    /\ total_return = 0
    /\ episode_length = None
    /\ episode_return = None
    /\ observation = None
    /\ action = None
    /\ reward = None
    /\ is_terminal = FALSE
    /\ step_count = 0
    /\ total_reward = 0
    /\ prevCall = NoCall
    /\ lastCall = NoCall
    /\ epCalls = NoCalls
    /\ phaseEnvSteps = 0
    /\ itCallbacks = 0
    /\ phaseLog = PhaseLogFresh
    /\ seed \in {None} \cup (0..MaxSeed)
    /\ envSeed \in {"method", "property"}
    /\ seeded = Unseeded

SpecC == InitC /\ [][Next]_vars

\* ================================================== QLearningAgent
\* np.max(self._q[observation])
RowMax(row) == CHOOSE m \in {row[a] : a \in Actions} :
                  \A a \in Actions : row[a] <= m

\* np.argmax(self._q[observation]): the first index holding the maximum
ArgMax(row) == CHOOSE a \in Actions :
                  /\ row[a] = RowMax(row)
                  /\ \A b \in Actions : b < a => row[b] < row[a]

\* _choose_greedy_action(observation)
ChooseGreedyAction(o) == ArgMax(q[o])

\* The exploration rate of _choose_epsilon_greedy_action at counter sc, as
\* the numerator over Den * epsilon_n:
\*   epsilon_i - step_count * (epsilon_i - epsilon_f) / epsilon_n
EpsilonNum(sc) == epsilon_i * epsilon_n - sc * (epsilon_i - epsilon_f)

\* np.random.random() < epsilon, for a draw in [0, 1): the outcomes there are
RandomBelow(num, den) ==
    (IF num > 0 THEN {TRUE} ELSE {}) \cup (IF num < den THEN {FALSE} ELSE {})

\* _choose_epsilon_greedy_action(observation) at counter sc: the actions it
\* may return; Raise for the NameError of `epsilon = epsilon_f`.
ChooseEpsilonGreedyAction(o, sc) ==
    IF sc < epsilon_n
    THEN {IF explore THEN a ELSE ChooseGreedyAction(o) :
            <<explore, a>> \in RandomBelow(EpsilonNum(sc), Den * epsilon_n)
                               \X Actions}
    ELSE {Raise}

\* _choose_action(observation, eval_mode)
ChooseAction(o, em, sc) ==
    IF em THEN {ChooseGreedyAction(o)} ELSE ChooseEpsilonGreedyAction(o, sc)

\* The eval_mode argument begin_episode and step pass to _choose_action:
\* they call self._choose_action(observation), so it is the default.
PassedEvalMode == FALSE

\* target = reward + self._gamma * np.max(self._q[observation]), times
\* Den * QScale
TargetNum(r, o) == r * QScale * Den + gamma * RowMax(q[o])

\* x += self._alpha * (target - x) for the table entry x
TDUpdate(x, r, o) == x + (alpha * (TargetNum(r, o) - x * Den)) \div (Den * Den)

\* self._q[self._last_observation, action] += ... : the table afterwards.
\* With _last_observation None the index is (np.newaxis, action), which
\* selects the whole row `action` of the table.
QAfterUpdate(a, r, o) ==
    IF last_observation = None
    THEN [q EXCEPT ![a] = [b \in Actions |-> TDUpdate(q[a][b], r, o)]]
    ELSE [q EXCEPT ![last_observation][a] = TDUpdate(@, r, o)]

\* The action the agent returned last (None when it has returned none).
LastReturned ==
    IF \E i \in 1..Len(history) : history[i].ret >= 0
    THEN history[CHOOSE i \in 1..Len(history) :
                    /\ history[i].ret >= 0
                    /\ \A j \in (i + 1)..Len(history) : history[j].ret < 0].ret
    ELSE None

CanCall == ~raised /\ Len(history) < MaxAgentCalls

\* agent.eval_mode = False / True (Experiment._run_train_phase,
\* Experiment._run_eval_phase)
SetEvalMode(b) ==
    /\ ~raised
    /\ eval_mode' = b
    /\ UNCHANGED <<harnessVars, agentVars>>

\* QLearningAgent.begin_episode(observation)
QBeginEpisode(o) ==
    /\ CanCall
    /\ q_step_count' = 1
    /\ last_observation' = o
    /\ \E res \in ChooseAction(o, PassedEvalMode, 1) :
          /\ raised' = (res = Raise)
          /\ history' = Append(history,
                 [name |-> "begin_episode", args |-> <<o>>, ret |-> res])
    /\ UNCHANGED <<q, alpha, gamma, epsilon_i, epsilon_f, epsilon_n>>
    /\ UNCHANGED <<harnessVars, eval_mode>>

\* QLearningAgent.step(reward, observation)
QStep(r, o) ==
    /\ CanCall
    /\ \E res \in ChooseAction(o, PassedEvalMode, q_step_count) :
          IF res = Raise \/ (last_observation = None /\ res >= NumStates)
          THEN /\ raised' = TRUE
               /\ history' = Append(history,
                      [name |-> "step", args |-> <<r, o>>, ret |-> Raise])
               /\ UNCHANGED <<q, q_step_count, last_observation>>
          ELSE /\ q' = QAfterUpdate(res, r, o)
               /\ q_step_count' = q_step_count + 1
               /\ last_observation' = o
               /\ history' = Append(history,
                      [name |-> "step", args |-> <<r, o>>, ret |-> res])
               /\ UNCHANGED raised
    /\ UNCHANGED <<alpha, gamma, epsilon_i, epsilon_f, epsilon_n>>
    /\ UNCHANGED <<harnessVars, eval_mode>>

\* QLearningAgent.end_episode(reward)
QEndEpisode(r) ==
    /\ CanCall
    /\ last_observation' = None
    /\ history' = Append(history,
           [name |-> "end_episode", args |-> <<r>>, ret |-> None])
    /\ UNCHANGED <<q, q_step_count, alpha, gamma, epsilon_i, epsilon_f,
                   epsilon_n, raised>>
    /\ UNCHANGED <<harnessVars, eval_mode>>

\* A constructed QLearningAgent with hyper-parameters from bounded sets; the
\* Experiment variables are idle.
InitQ ==
    /\ AgentConstructed
    /\ alpha \in 1..Den
    /\ gamma \in 0..Den
    /\ epsilon_i \in {0, Den}
    /\ epsilon_f \in {0, 1}
    /\ epsilon_n \in 1..MaxEpsilonN
    /\ agentKind = "QLearningAgent"
    /\ envLen = 0
    /\ env = EnvFresh
    /\ pc = "agent"
    /\ num_iterations = 1
    /\ train_steps = 0
    /\ eval_steps = 0
    /\ max_steps_per_episode = 1
    /\ eval_mode = FALSE
    /\ stats = <<>>
    /\ iteration = 0
    /\ runs = 0
    /\ run_mode = "none"
    /\ min_steps = 0
    /\ phase_step_count = 0
    /\ num_episodes = 0
    /\ total_return = 0
    /\ episode_length = None
    /\ episode_return = None
    /\ observation = None
    /\ action = None
    /\ reward = None
    /\ is_terminal = FALSE
    /\ step_count = 0
    /\ total_reward = 0
    /\ prevCall = NoCall
    /\ lastCall = NoCall
    /\ epCalls = NoCalls
    /\ phaseEnvSteps = 0
    /\ itCallbacks = 0
    /\ phaseLog = PhaseLogFresh
    /\ seed = None
    /\ envSeed = "method"
    /\ seeded = Unseeded

NextQ ==
    \/ \E b \in BOOLEAN : SetEvalMode(b)
    \/ \E o \in States : QBeginEpisode(o)
    \/ \E r \in Rewards, o \in States : QStep(r, o)
    \/ \E r \in Rewards : QEndEpisode(r)

SpecQ == InitQ /\ [][NextQ]_vars

\* ============================================================ claims
Min(a, b) == IF a < b THEN a ELSE b

InEpisode == pc \in {"begin_episode", "act", "step", "learn", "end_episode"}

\* C1: a phase is made of whole episodes only.  An episode is started only
\* while the cumulative step count is below min_steps; when the phase returns
\* no episode is open, the step count returned is the number of environment
\* steps taken in the phase, it is >= min_steps, and without the last episode
\* it was < min_steps.  With 3-step episodes, min_steps = 10 and cap 3 the
\* phase returns 12 steps in 4 episodes.
C1_PhaseWholeEpisodes ==
    /\ (pc = "episode" \/ InEpisode) => phase_step_count < min_steps
    /\ pc = "phase_return" =>
          /\ phase_step_count = phaseEnvSteps
          /\ phase_step_count >= min_steps
          /\ num_episodes > 0 =>
                /\ lastCall.name = "end_episode"
                /\ phase_step_count - episode_length < min_steps
          /\ (envLen = 3 /\ min_steps = 10 /\ max_steps_per_episode = 3) =>
                (phase_step_count = 12 /\ num_episodes = 4)

C1_Witness ==
    /\ pc = "phase_return"
    /\ envLen = 3 /\ min_steps = 10 /\ max_steps_per_episode = 3
    /\ phase_step_count = 12 /\ num_episodes = 4

\* C2: an episode ends at the first step at which the environment reports
\* terminal or the step count reaches the cap: the returned length is the
\* minimum of the first terminal step and the cap, the environment is never
\* stepped after it reported terminal, and the returned reward is the sum of
\* the rewards of the steps taken.
C2_EpisodeEnds ==
    /\ InEpisode =>
          /\ env.steps <= max_steps_per_episode
          /\ env.terminalAt > 0 => env.steps = env.terminalAt
    /\ pc = "episode_callback" =>
          /\ episode_length = IF env.terminalAt > 0
                              THEN Min(env.terminalAt, max_steps_per_episode)
                              ELSE max_steps_per_episode
          /\ episode_length = env.steps
          /\ episode_return = env.rewardSum

C2_Witness ==
    /\ pc = "episode_callback"
    /\ env.terminalAt = 1
    /\ max_steps_per_episode = 2
    /\ episode_length = 1
    /\ episode_return = 1

\* C3: within an episode the calls are reset, begin_episode (once, with the
\* observation reset returned), then rounds of act, step (with the action act
\* returned), learn (with the reward and observation step returned), then
\* end_episode (once); the next reset comes only after end_episode.
C3_CallOrder ==
    /\ lastCall.name = "reset" => prevCall.name \in {"none", "end_episode"}
    /\ lastCall.name = "begin_episode" =>
          prevCall.name = "reset" /\ lastCall.args = prevCall.ret
    /\ lastCall.name = "act" => prevCall.name \in {"begin_episode", "learn"}
    /\ lastCall.name = "step" =>
          prevCall.name = "act" /\ lastCall.args = prevCall.ret
    /\ lastCall.name = "learn" =>
          /\ prevCall.name = "step"
          /\ lastCall.args = <<prevCall.ret[2], prevCall.ret[1]>>
    /\ lastCall.name = "end_episode" => prevCall.name = "learn"
    /\ epCalls["begin_episode"] <= 1
    /\ epCalls["end_episode"] <= 1
    /\ pc = "episode_callback" =>
          /\ epCalls["reset"] = 1
          /\ epCalls["begin_episode"] = 1
          /\ epCalls["end_episode"] = 1
          /\ epCalls["act"] >= 1
          /\ epCalls["step"] = epCalls["act"]
          /\ epCalls["learn"] = epCalls["act"]

C3_Witness ==
    /\ pc = "episode_callback"
    /\ epCalls["act"] = 2
    /\ epCalls["learn"] = 2
    /\ num_episodes = 1

\* C4: run() always terminates and returns the statistics, whatever the
\* environment does, for every agent of the program (the conforming agent
\* and the QLearningAgent of tests/lab/core_test.py).
C4_RunReturns == <>(pc = "returned")

StatsLens(n1, n2) ==
    /\ Len(stats.train_average_returns) = n1
    /\ Len(stats.train_episode_counts) = n1
    /\ Len(stats.eval_average_returns) = n2
    /\ Len(stats.eval_episode_counts) = n2

\* C5: run() starts from four empty sequences, every completed iteration
\* appends one value to each, and at the return each has num_iterations
\* values, in a second run() as well.
C5_StatsLengths ==
    /\ pc = "for_iteration" => StatsLens(iteration, iteration)
    /\ pc = "returned" =>
          /\ DOMAIN stats = {"train_average_returns", "train_episode_counts",
                             "eval_average_returns", "eval_episode_counts"}
          /\ StatsLens(num_iterations, num_iterations)

C5_Witness ==
    /\ pc = "returned"
    /\ runs = 2
    /\ num_iterations = 2
    /\ StatsLens(2, 2)

\* C6: in every iteration the training phase is complete before the
\* evaluation phase starts, the iteration callback is invoked once, after
\* the evaluation phase and before the next training phase; its k-th
\* invocation sees four sequences of length k, and a full run invokes it
\* num_iterations times.
C6_IterationOrder ==
    /\ run_mode = "train" =>
          itCallbacks = iteration /\ StatsLens(iteration, iteration)
    /\ (pc = "eval_phase" \/ run_mode = "eval") =>
          itCallbacks = iteration /\ StatsLens(iteration + 1, iteration)
    /\ pc = "iteration_callback" =>
          itCallbacks = iteration /\ StatsLens(iteration + 1, iteration + 1)
    /\ pc = "for_iteration" => itCallbacks = iteration
    /\ pc = "returned" => itCallbacks = num_iterations

C6_Witness ==
    /\ pc = "for_iteration"
    /\ itCallbacks = 2
    /\ iteration = 2
    /\ StatsLens(2, 2)

\* C7: at every agent call of a training phase eval_mode is FALSE, at every
\* agent call of an evaluation phase it is TRUE, and the flag changes only
\* when a phase starts.
C7_ModeFollowsPhase ==
    /\ [](pc \in {"begin_episode", "act", "learn", "end_episode"} =>
            (eval_mode <=> (run_mode = "eval")))
    /\ [][eval_mode' # eval_mode => pc \in {"train_phase", "eval_phase"}]_vars

C7_Witness ==
    /\ pc = "act"
    /\ run_mode = "train"
    /\ iteration = 1
    /\ eval_mode = FALSE

\* The call a step of the agent has just appended to the history.
NewCall == history'[Len(history')]
Called(names) ==
    /\ Len(history') = Len(history) + 1
    /\ NewCall.name \in names

\* C8: while eval_mode is TRUE, every action begin_episode or step returns
\* is the greedy one: the first argmax of the table row of the observation
\* it was called with.
C8_EvalIsGreedy ==
    [][(eval_mode /\ Called({"begin_episode", "step"}) /\ NewCall.ret >= 0)
          => NewCall.ret = ArgMax(q[NewCall.args[Len(NewCall.args)]])]_vars

\* C9: a learning call made inside an episode changes no table entry but the
\* one of the last state and the action last returned, and leaves the new
\* observation as the last state.
C9_UpdatesLastPair ==
    [][(Called({"step"}) /\ NewCall.ret >= 0 /\ last_observation # None)
          => /\ \A s \in States, a \in Actions :
                   <<s, a>> # <<last_observation, LastReturned>>
                      => q'[s][a] = q[s][a]
             /\ last_observation' = NewCall.args[2]]_vars

\* C10: from the zero table, begin_episode(s) returning a followed by one
\* learning call with reward r leaves alpha * r in entry [s, a] and zero in
\* every other entry.
C10_SingleUpdate ==
    (/\ Len(history) = 2
     /\ history[1].name = "begin_episode" /\ history[1].ret >= 0
     /\ history[2].name = "step" /\ history[2].ret >= 0)
    => \A s \in States, a \in Actions :
          q[s][a] * Den =
             IF <<s, a>> = <<history[1].args[1], history[1].ret>>
             THEN alpha * history[2].args[1] * QScale
             ELSE 0

\* C11: the step counter behind the exploration schedule never decreases,
\* whatever calls are made on the agent.
C11_CounterMonotone == [][q_step_count' >= q_step_count]_vars

\* The value of _step_count an action selection of the new call has read:
\* begin_episode assigns the counter before it selects, step after.
CounterAtChoice ==
    IF NewCall.name = "begin_episode" THEN q_step_count' ELSE q_step_count

\* C12: in training mode, an action selection made when the step counter
\* has reached epsilon_n completes normally with an action of the action
\* space.
C12_SelectsPastHorizon ==
    [][(~eval_mode /\ Called({"begin_episode", "step"})
          /\ CounterAtChoice >= epsilon_n)
          => NewCall.ret \in Actions]_vars

\* C13: a learning call made while no episode is open (the last state is
\* cleared) ends in an error and leaves the table as it was.
C13_LearnOutsideEpisode ==
    [][(Called({"step"}) /\ last_observation = None)
          => (NewCall.ret = Raise /\ q' = q)]_vars

\* C14: the Experiment ends every episode with end_episode(reward), the
\* reward of the episode's last step.
C14_EndEpisodeArgument ==
    lastCall.name = "end_episode" => lastCall.args = <<prevCall.args[1]>>

\* The value last appended to a statistics sequence.
LastOf(seq) == seq[Len(seq)]

\* Sequence old extended by exactly one value.
Appended(old, new) == Len(new) = Len(old) + 1 /\ SubSeq(new, 1, Len(old)) = old

\* The statistics a phase of mode m records at its end: the count is the
\* number of episodes the phase ran, the average is a fraction (non-zero
\* denominator) equal to the phase's reward sum over that number, and 0 for
\* a phase without episodes; the other sequences are as before.
Records(counts, averages) ==
    /\ Appended(counts, counts') /\ Appended(averages, averages')
    /\ LastOf(counts') = phaseLog.episodes
    /\ LastOf(averages')[2] # 0
    /\ LastOf(averages')[1] * phaseLog.episodes
          = phaseLog.rewards * LastOf(averages')[2]
    /\ phaseLog.episodes = 0 => LastOf(averages')[1] = 0

C16_InvalidCapRejected ==
    /\ max_steps_per_episode <= 0 => pc \in {"construct", "raised"}
    /\ InEpisode => max_steps_per_episode > 0

\* C17: once construction is over, agent and environment have each been
\* seeded exactly once if a seed was supplied, and never otherwise, whatever
\* number of run() calls has been made.
C17_SeededOnce ==
    (pc # "construct" /\ agentKind = "Agent") =>
        IF seed # None
        THEN seeded = [agent |-> 1, env |-> 1]
        ELSE seeded = [agent |-> 0, env |-> 0]

\* C18: every episode has between 1 and max_steps_per_episode steps; a phase
\* with min_steps > 0 runs at least ceil(min_steps / cap) and at most
\* min_steps episodes and fewer than min_steps + cap steps; a phase with
\* min_steps = 0 runs no episode.
C18_EpisodeAndPhaseBounds ==
    /\ pc = "episode_callback" =>
          (1 <= episode_length /\ episode_length <= max_steps_per_episode)
    /\ (pc = "phase_return" /\ min_steps > 0) =>
          /\ num_episodes * max_steps_per_episode >= min_steps
          /\ num_episodes <= min_steps
          /\ phase_step_count < min_steps + max_steps_per_episode
    /\ (pc = "phase_return" /\ min_steps = 0) =>
          (num_episodes = 0 /\ phaseLog.episodes = 0 /\ phaseEnvSteps = 0)

C18_Witness ==
    /\ pc = "phase_return"
    /\ min_steps = 2
    /\ max_steps_per_episode = 2
    /\ num_episodes = 2
    /\ phase_step_count = 3

\* C19: in every episode, of a training or an evaluation phase, the agent's
\* action selections, the environment's steps and the agent's learning calls
\* are each as many as the steps the episode returns.
C19_OneLearnPerStep ==
    /\ pc = "end_episode" =>
          /\ epCalls["act"] = step_count
          /\ epCalls["step"] = step_count
          /\ epCalls["learn"] = step_count
          /\ lastCall.name = "learn"
    /\ pc = "episode_callback" =>
          /\ epCalls["act"] = episode_length
          /\ epCalls["step"] = episode_length
          /\ epCalls["learn"] = episode_length
          /\ env.steps = episode_length

C19_Witness ==
    /\ pc = "episode_callback"
    /\ run_mode = "eval"
    /\ eval_mode
    /\ env.terminalAt = 1
    /\ epCalls["learn"] = 1
    /\ episode_length = 1

\* C20: the episode callback runs once per episode, after end_episode and
\* before the next reset, as often in a phase as the episode count the phase
\* records; the statistics it sees lack the running phase: in the training
\* phase of iteration k all four sequences have k - 1 values, in its
\* evaluation phase the train sequences have k and the eval sequences k - 1.
C20_EpisodeCallback ==
    /\ [](/\ pc = "episode_callback" =>
                /\ lastCall.name = "end_episode"
                /\ phaseLog.callbacks = phaseLog.episodes - 1
                /\ run_mode = "train" => StatsLens(iteration, iteration)
                /\ run_mode = "eval" => StatsLens(iteration + 1, iteration)
          /\ pc \in {"phase_loop", "episode", "phase_return"} =>
                phaseLog.callbacks = phaseLog.episodes)
    /\ [][(pc = "phase_return" /\ pc' # pc) =>
             phaseLog.callbacks =
                LastOf(IF run_mode = "train" THEN stats'.train_episode_counts
                       ELSE stats'.eval_episode_counts)]_vars

C20_Witness ==
    /\ pc = "episode_callback"
    /\ run_mode = "eval"
    /\ iteration = 1
    /\ phaseLog.callbacks = 0
    /\ StatsLens(2, 1)

====
